---- MODULE Spec2Model ----
(***************************************************************************)
(* Model of the docker-compose wrapper (lib/docker-compose.js and the      *)
(* older index.js): the argument builder _buildParams, the execution       *)
(* lifecycle _execute with its promise finalizer, putInitParams, putEnv    *)
(* and the sixteen subcommand operations; and of the Docker handler        *)
(* (lib/docker-handler.js): its existence checks, its lookups of networks  *)
(* and volumes and createOverlayNetwork, over a dockerode client.          *)
(***************************************************************************)
EXTENDS Integers, Sequences, FiniteSets, TLC

VARIABLES
    opts,        \* this.opts: Primary Options of the instance
    env,         \* this.env: Environment Overlay of the instance
    procEnv,     \* process.env of the host process (one shared object)
    calls,       \* the child processes in flight, in spawn order
    lastCall,    \* the most recent method call, how it returned, what it spawned
    lastSpawn,   \* this.env at the most recent spawn and the env the child got
    settled,     \* outcome of the promise that settled most recently
    lastInit,    \* argument of the most recent putInitParams call
    envFresh,    \* TRUE iff putEnv was called since the last spawning call
    invoked,     \* the operation the caller invoked last, with the arguments it gave
    bModule,     \* module whose builder is called: "lib" (lib/docker-compose.js) or "index"
    bInput,      \* options mapping given to _buildParams
    bOut,        \* what _buildParams returned
    bDone,       \* TRUE once _buildParams has returned
    docker,      \* the Docker daemon behind this.docker of the handler
    pending,     \* the handler's calls in flight, each waiting for the daemon
    requests,    \* the createNetwork requests sent to the daemon so far
    done         \* the handler's call that settled most recently

vars == <<opts, env, procEnv, calls, lastCall, lastSpawn, settled,
          lastInit, envFresh, invoked, bModule, bInput, bOut, bDone,
          docker, pending, requests, done>>

lifeVars == <<opts, env, procEnv, calls, lastCall, lastSpawn, settled,
              lastInit, envFresh, invoked>>
buildVars == <<bModule, bInput, bOut, bDone>>
handlerVars == <<docker, pending, requests, done>>

-----------------------------------------------------------------------------
(* JavaScript values, tagged by their type.                                *)

Undefined == <<"undefined">>
Null == <<"null">>
Str(s) == <<"string", s>>
Num(n) == <<"number", n>>
Bool(b) == <<"boolean", b>>
Arr(items) == <<"array", items>>
Obj(entries) == <<"object", entries>>   \* entries: <<key, value>> in for-in order

TypeOf(v) == v[1]
IsArray(v) == TypeOf(v) = "array"

\* The !!v coercion.
Truthy(v) ==
    CASE TypeOf(v) = "undefined" -> FALSE
      [] TypeOf(v) = "null" -> FALSE
      [] TypeOf(v) = "string" -> v[2] # ""
      [] TypeOf(v) = "number" -> v[2] # 0
      [] TypeOf(v) = "boolean" -> v[2]
      [] OTHER -> TRUE

-----------------------------------------------------------------------------
(* Bounds of the model.                                                    *)

MaxKeys == 2      \* keys per options mapping given to _buildParams
MaxList == 2      \* elements per list value
MaxInFlight == 2  \* child processes in flight at one time
MaxChunks == 2    \* data chunks one child writes to its two streams

-----------------------------------------------------------------------------
(* The argument builder.                                                   *)

\* Variant: the test on the key's length inverted.
FlagTokenInverted(opt) == Str((IF Len(opt) = 1 THEN "--" ELSE "-") \o opt)

\* (opt.length === 1 ? '-' : '--').concat(opt)
FlagToken(opt) == Str((IF Len(opt) = 1 THEN "-" ELSE "--") \o opt)

RECURSIVE TruthyOnly(_)
TruthyOnly(items) ==
    IF items = <<>> THEN <<>>
    ELSE (IF Truthy(Head(items)) THEN <<Head(items)>> ELSE <<>>) \o TruthyOnly(Tail(items))

\* Variant: the flag pushed once, before the loop over the elements.
ListParamsFlagOnce(opt, items) ==
    IF items = <<>> THEN <<>> ELSE <<FlagToken(opt)>> \o TruthyOnly(items)

RECURSIVE ListParams(_, _)
\* for (let val of value) { push flag; if (!!val) push val }
ListParams(opt, items) ==
    IF items = <<>> THEN <<>>
    ELSE <<FlagToken(opt)>>
         \o (IF Truthy(Head(items)) THEN <<Head(items)>> ELSE <<>>)
         \o ListParams(opt, Tail(items))

\* Variant: the value pushed without the test for a truthy value.
EntryParamsAlwaysValue(opt, value) ==
    IF IsArray(value)
    THEN ListParams(opt, value[2])
    ELSE <<FlagToken(opt), value>>

\* The body of the for-in loop of lib/docker-compose.js for one key.
EntryParams(opt, value) ==
    IF IsArray(value)
    THEN ListParams(opt, value[2])
    ELSE <<FlagToken(opt)>> \o (IF Truthy(value) THEN <<value>> ELSE <<>>)

RECURSIVE EntriesParams(_)
EntriesParams(entries) ==
    IF entries = <<>> THEN <<>>
    ELSE EntryParams(Head(entries)[1], Head(entries)[2]) \o EntriesParams(Tail(entries))

\* DockerCompose.prototype._buildParams of lib/docker-compose.js
_buildParams(o) ==
    IF ~Truthy(o) THEN <<>> ELSE EntriesParams(o[2])

\* The body of the for-in loop of index.js for one key: no list handling.
IndexEntryParams(opt, value) ==
    <<FlagToken(opt)>> \o (IF Truthy(value) THEN <<value>> ELSE <<>>)

RECURSIVE IndexEntriesParams(_)
IndexEntriesParams(entries) ==
    IF entries = <<>> THEN <<>>
    ELSE IndexEntryParams(Head(entries)[1], Head(entries)[2])
         \o IndexEntriesParams(Tail(entries))

\* DockerCompose.prototype._buildParams of index.js
index_buildParams(o) ==
    IF ~Truthy(o) THEN <<>> ELSE IndexEntriesParams(o[2])

-----------------------------------------------------------------------------
(* String coercion, as in  "..." + code  and  stdout += data.              *)

JsString(v) ==
    CASE TypeOf(v) = "string" -> v[2]
      [] TypeOf(v) = "number" -> ToString(v[2])
      [] TypeOf(v) = "boolean" -> (IF v[2] THEN "true" ELSE "false")
      [] TypeOf(v) = "null" -> "null"
      [] OTHER -> "undefined"

-----------------------------------------------------------------------------
(* The execution lifecycle.                                                *)

\* Variant: the subcommand pushed before the Primary Options' tokens.
ExecuteArgsCommandFirst(thisOpts, command, o, services, sub_opts) ==
    <<Str(command)>>
    \o _buildParams(thisOpts)
    \o (IF Truthy(o) THEN _buildParams(o) ELSE <<>>)
    \o (IF Truthy(services)
        THEN (IF IsArray(services) THEN services[2] ELSE <<services>>)
        ELSE <<>>)
    \o (IF Truthy(sub_opts) THEN <<sub_opts>> ELSE <<>>)

\* Lines 51-61 of _execute: the argument vector handed to spawn.
ExecuteArgs(thisOpts, command, o, services, sub_opts) ==
    _buildParams(thisOpts)
    \o <<Str(command)>>
    \o (IF Truthy(o) THEN _buildParams(o) ELSE <<>>)
    \o (IF Truthy(services)
        THEN (IF IsArray(services) THEN services[2] ELSE <<services>>)
        ELSE <<>>)
    \o (IF Truthy(sub_opts) THEN <<sub_opts>> ELSE <<>>)

RECURSIVE AssignAll(_, _)
\* for (let item in this.env) env[item] = this.env[item], env being process.env
\* itself: a value stored in process.env is stored as a string.
AssignAll(pe, entries) ==
    IF entries = <<>> THEN pe
    ELSE LET k == Head(entries)[1]
             v == JsString(Head(entries)[2])
         IN AssignAll([n \in DOMAIN pe \cup {k} |-> IF n = k THEN v ELSE pe[n]],
                      Tail(entries))

\* Variant: a variable the host process already has keeps its value.
MergedEnvInheritedWins(pe, thisEnv) ==
    IF TypeOf(thisEnv) = "object"
    THEN LET merged == AssignAll(pe, thisEnv[2])
         IN [n \in DOMAIN merged |-> IF n \in DOMAIN pe THEN pe[n] ELSE merged[n]]
    ELSE pe

\* Lines 63-66: process.env after the overlay was written into it.
MergedEnv(pe, thisEnv) ==
    IF TypeOf(thisEnv) = "object" THEN AssignAll(pe, thisEnv[2]) ELSE pe

\* Variant: the guard tests this.opts alone.
UnsetOptsOnly(thisOpts, thisEnv) == ~Truthy(thisOpts)

\* The guard of line 46.
Unset(thisOpts, thisEnv) == ~Truthy(thisOpts) \/ ~Truthy(thisEnv)

\* Variant: output on standard error counts as a failure.
CloseOutcomeStderrFails(code, stdout, stderr) ==
    IF code # Num(0) \/ stderr # ""
    THEN [kind |-> "rejected",
          value |-> "Command exited: " \o JsString(code) \o "\n" \o stderr]
    ELSE [kind |-> "resolved", value |-> stdout]

\* The close handler's decision, lines 82-89.
CloseOutcome(code, stdout, stderr) ==
    IF code # Num(0)
    THEN [kind |-> "rejected",
          value |-> "Command exited: " \o JsString(code) \o "\n" \o stderr]
    ELSE [kind |-> "resolved", value |-> stdout]

\* Variant: .then in place of .finally, so a rejection skips the clearing.
FinallyEnvOnSuccess(thisEnv, outcome) ==
    IF outcome.kind = "resolved" THEN Null ELSE thisEnv

\* What .finally( _ => this.env = null ) leaves in this.env, whichever way
\* the executor's promise settled.
FinallyEnv(thisEnv, outcome) == Null

-----------------------------------------------------------------------------
(* Inputs of the method calls and events of the child processes.           *)

ComposeFiles == Obj(<< <<"f", Arr(<<Str("a.yml"), Str("b.yml")>>)>>, <<"p", Str("proj")>> >>)
Verbose == Obj(<< <<"verbose", Str("")>> >>)
Empty == Obj(<<>>)

PrimaryOptions == { Null, ComposeFiles, Verbose }

Overlays ==
    { Null,
      Obj(<< <<"DIYA_REPO", Str("master")>> >>),
      Obj(<< <<"PATH", Str("/opt/bin")>> >>) }

SubOptions ==
    { Undefined, Empty, Obj(<< <<"v", Str("")>> >>),
      Obj(<< <<"timeout", Str("5")>>, <<"t", Arr(<<Str("x")>>)>> >>) }

Services == { Undefined, Str(""), Str("web"), Arr(<<>>), Arr(<<Str("web"), Str("db")>>) }

Extras == { Undefined, Num(0), Str("80"), Str("-c") }

Chunks == { "a", "b" }

ExitCodes == { Num(0), Num(1), Null }    \* null: the child was ended by a signal

\* process.env as inherited by the host process
InheritedEnv == [n \in {"PATH"} |-> "/bin"]

NoOutcome == [kind |-> "pending", value |-> ""]

\* The errors the child process and its streams raise
SpawnFailure == "spawn docker-compose ENOENT"
ReadFailure == "read EIO"

-----------------------------------------------------------------------------
(* Actions.                                                                *)

\* The record of a method call: the method, its arguments, how it returned and
\* the argument vector it handed to spawn, if it did.
Returned(method, params, result, argv) ==
    [seq |-> 1 - lastCall.seq, method |-> method, params |-> params,
     result |-> result, argv |-> argv]

\* DockerCompose.prototype.putInitParams
putInitParams(o) ==
    /\ opts' = o
    /\ lastInit' = o
    /\ lastCall' = Returned("putInitParams", <<o>>, "returned", <<>>)
    /\ invoked' = [method |-> "putInitParams", args |-> <<o>>]
    /\ UNCHANGED <<env, procEnv, calls, lastSpawn, settled, envFresh,
                   buildVars, handlerVars>>

\* DockerCompose.prototype.putEnv
putEnv(e) ==
    /\ env' = e
    /\ envFresh' = TRUE
    /\ lastCall' = Returned("putEnv", <<e>>, "returned", <<>>)
    /\ invoked' = [method |-> "putEnv", args |-> <<e>>]
    /\ UNCHANGED <<opts, procEnv, calls, lastSpawn, settled, lastInit,
                   buildVars, handlerVars>>

\* The closure of one call of _execute at the moment spawn returns.
Child ==
    [stdout |-> "", stderr |-> "",
     outChunks |-> <<>>, errChunks |-> <<>>,
     state |-> "running", code |-> Undefined, outcome |-> NoOutcome,
     raised |-> <<>>]

\* DockerCompose.prototype._execute, up to the return of the promise
execute(command, o, services, sub_opts) ==
    IF Unset(opts, env)
    THEN /\ lastCall' = Returned(command, <<o, services, sub_opts>>, "threw", <<>>)
         /\ UNCHANGED <<opts, env, procEnv, calls, lastSpawn, settled,
                        lastInit, envFresh, buildVars, handlerVars>>
    ELSE /\ Len(calls) < MaxInFlight
         /\ procEnv' = MergedEnv(procEnv, env)
         /\ lastSpawn' = [overlay |-> env, env |-> MergedEnv(procEnv, env)]
         /\ calls' = Append(calls, Child)
         /\ envFresh' = FALSE
         /\ lastCall' = Returned(command, <<o, services, sub_opts>>, "promise",
                                 ExecuteArgs(opts, command, o, services, sub_opts))
         /\ UNCHANGED <<opts, env, settled, lastInit, buildVars, handlerVars>>

\* The call as the caller wrote it: the method and the arguments given, of
\* which the method takes as many as it declares.
Called(method, args) == invoked' = [method |-> method, args |-> args]

up(o) == execute("up", o, Undefined, Undefined)
down(o) == execute("down", o, Undefined, Undefined)
ps(o) == execute("ps", o, Undefined, Undefined)
start(o, services) == execute("start", o, services, Undefined)
stop(o, services) == execute("stop", o, services, Undefined)
restart(o, services) == execute("restart", o, services, Undefined)
kill(o, services) == execute("kill", o, services, Undefined)
pull(o, services) == execute("pull", o, services, Undefined)
create(o, services) == execute("create", o, services, Undefined)
version(o) == execute("version", o, Undefined, Undefined)
pause(o, services) == execute("pause", o, services, Undefined)
unpause(o, services) == execute("unpause", o, services, Undefined)
scale(o, services) == execute("scale", o, services, Undefined)
rm(o, services) == execute("rm", o, services, Undefined)
\* Variant: port hands on its options and its service, not the private port.
portWithoutExtra(o, service, private_port) == execute("port", o, service, Undefined)

port(o, service, private_port) == execute("port", o, service, private_port)
run(o, service, command) == execute("run", o, service, command)

\* cmd.stdout.on('data', ...): stdout += data
StdoutData(i, data) ==
    /\ i \in 1..Len(calls)
    /\ calls[i].state = "running"
    /\ Len(calls[i].outChunks) + Len(calls[i].errChunks) < MaxChunks
    /\ calls' = [calls EXCEPT ![i].stdout = @ \o JsString(Str(data)),
                              ![i].outChunks = Append(@, data)]
    /\ UNCHANGED <<opts, env, procEnv, lastCall, lastSpawn, settled,
                   lastInit, envFresh, invoked, buildVars, handlerVars>>

\* Variant: the first output on standard error rejects the promise at once.
StderrDataRejects(i, data) ==
    /\ i \in 1..Len(calls)
    /\ calls[i].state = "running"
    /\ Len(calls[i].outChunks) + Len(calls[i].errChunks) < MaxChunks
    /\ calls' = [calls EXCEPT ![i].stderr = @ \o JsString(Str(data)),
                              ![i].errChunks = Append(@, data),
                              ![i].outcome = [kind |-> "rejected", value |-> data]]
    /\ UNCHANGED <<opts, env, procEnv, lastCall, lastSpawn, settled,
                   lastInit, envFresh, invoked, buildVars, handlerVars>>

\* cmd.stderr.on('data', ...): stderr += data
StderrData(i, data) ==
    /\ i \in 1..Len(calls)
    /\ calls[i].state = "running"
    /\ Len(calls[i].outChunks) + Len(calls[i].errChunks) < MaxChunks
    /\ calls' = [calls EXCEPT ![i].stderr = @ \o JsString(Str(data)),
                              ![i].errChunks = Append(@, data)]
    /\ UNCHANGED <<opts, env, procEnv, lastCall, lastSpawn, settled,
                   lastInit, envFresh, invoked, buildVars, handlerVars>>

\* cmd.on('close', ...): the promise of the executor is resolved or rejected
Close(i, code) ==
    /\ i \in 1..Len(calls)
    /\ calls[i].state = "running"
    /\ calls' = [calls EXCEPT ![i].state = "closed",
                              ![i].code = code,
                              ![i].outcome = CloseOutcome(code, calls[i].stdout,
                                                          calls[i].stderr)]
    /\ UNCHANGED <<opts, env, procEnv, lastCall, lastSpawn, settled,
                   lastInit, envFresh, invoked, buildVars, handlerVars>>

\* The child emits 'error': docker-compose could not be started.  _execute
\* registers no listener for it, so the emitter throws the error out of the
\* event loop; 'close' is not emitted after it.  Whether the host process ends
\* there or goes on, no callback of this call runs again.
SpawnError(i) ==
    /\ i \in 1..Len(calls)
    /\ calls[i].state = "running"
    /\ calls[i].raised = <<>>
    /\ calls' = [calls EXCEPT ![i].state = "errored",
                              ![i].raised = <<SpawnFailure>>]
    /\ UNCHANGED <<opts, env, procEnv, lastCall, lastSpawn, settled,
                   lastInit, envFresh, invoked, buildVars, handlerVars>>

\* cmd.stdout or cmd.stderr emits 'error': again no listener.  The child goes
\* on and may still close.
StreamError(i) ==
    /\ i \in 1..Len(calls)
    /\ calls[i].state = "running"
    /\ calls[i].raised = <<>>
    /\ calls' = [calls EXCEPT ![i].raised = <<ReadFailure>>]
    /\ UNCHANGED <<opts, env, procEnv, lastCall, lastSpawn, settled,
                   lastInit, envFresh, invoked, buildVars, handlerVars>>

Remove(seq, i) == SubSeq(seq, 1, i - 1) \o SubSeq(seq, i + 1, Len(seq))

\* Variant: the finalizer resets the whole configuration of the instance.
FinallyResetsInstance(i) ==
    /\ i \in 1..Len(calls)
    /\ calls[i].state = "closed"
    /\ env' = FinallyEnv(env, calls[i].outcome)
    /\ opts' = Null
    /\ settled' = calls[i].outcome
    /\ calls' = Remove(calls, i)
    /\ UNCHANGED <<procEnv, lastCall, lastSpawn, lastInit, envFresh, invoked, buildVars, handlerVars>>

\* Variant: the finalizer leaves alone an overlay installed after its own call.
FinallyKeepsNewOverlay(i) ==
    /\ i \in 1..Len(calls)
    /\ calls[i].state = "closed"
    /\ env' = (IF envFresh THEN env ELSE FinallyEnv(env, calls[i].outcome))
    /\ settled' = calls[i].outcome
    /\ calls' = Remove(calls, i)
    /\ UNCHANGED <<opts, procEnv, lastCall, lastSpawn, lastInit,
                   envFresh, invoked, buildVars, handlerVars>>

\* .finally( _ => this.env = null ): runs once the executor's promise is
\* settled; the promise handed to the caller then settles the same way and
\* nothing refers to the child any more.
Finally(i) ==
    /\ i \in 1..Len(calls)
    /\ calls[i].state = "closed"
    /\ env' = FinallyEnv(env, calls[i].outcome)
    /\ settled' = calls[i].outcome
    /\ calls' = Remove(calls, i)
    /\ UNCHANGED <<opts, procEnv, lastCall, lastSpawn, lastInit,
                   envFresh, invoked, buildVars, handlerVars>>

-----------------------------------------------------------------------------
(* The Docker handler (lib/docker-handler.js) over a dockerode client.     *)

MaxPending == 2   \* calls of the handler in flight at one time
MaxRequests == 2  \* createNetwork requests sent in one behavior

\* A property of an object, undefined when the object has none of that name.
Prop(obj, key) ==
    LET at == { k \in 1..Len(obj[2]) : obj[2][k][1] = key }
    IN IF at = {} THEN Undefined ELSE obj[2][CHOOSE k \in at : TRUE][2]

Network(id, name) == Obj(<< <<"Id", Str(id)>>, <<"Name", Str(name)>> >>)

\* The daemon finds a network by its id or by its name.
NetworksFound(d, id) ==
    { k \in 1..Len(d.networks) :
         Prop(d.networks[k], "Id") = Str(id) \/ Prop(d.networks[k], "Name") = Str(id) }

\* What dockerode hands to a callback: (err, data).
Reply(err, data) == [err |-> err, data |-> data]
Waiting == Reply(Undefined, Undefined)

Refused == Str("connect ECONNREFUSED")
NotFound == Str("no such object")
Conflict == Str("network with that name already exists")

\* network.inspect(callback), as the daemon answers it
NetworkInspection(d, id) ==
    IF ~d.up THEN Reply(Refused, Undefined)
    ELSE IF NetworksFound(d, id) = {} THEN Reply(NotFound, Undefined)
    ELSE Reply(Null, d.networks[CHOOSE k \in NetworksFound(d, id) : TRUE])

\* image.inspect(callback) and container.inspect(callback)
ObjectInspection(d, objects, id) ==
    IF ~d.up THEN Reply(Refused, Undefined)
    ELSE IF id \notin objects THEN Reply(NotFound, Undefined)
    ELSE Reply(Null, Obj(<< <<"Id", Str(id)>> >>))

\* this.docker.listNetworks({}): the list, which a daemon without networks may
\* hand over as an empty list or as null
NetworkListings(d) ==
    IF ~d.up THEN { Reply(Refused, Undefined) }
    ELSE { Reply(Null, Arr(d.networks)) }
         \cup (IF d.networks = <<>> THEN { Reply(Null, Null) } ELSE {})

\* this.docker.listVolumes({}, callback)
VolumeListing(d) ==
    IF ~d.up THEN Reply(Refused, Undefined)
    ELSE Reply(Null, Obj(<< <<"Volumes", d.volumes>> >>))

Resolved(value) == [kind |-> "resolved", value |-> value]
Rejected(error) == [kind |-> "rejected", value |-> error]

\* inspectNetwork, inspectImage, inspectContainer: the promise over the callback
Inspected(reply) ==
    IF Truthy(reply.err) THEN Rejected(reply.err) ELSE Resolved(reply.data)

\* .then(_ => true).catch(err => false)
Exists(inspection) ==
    IF inspection.kind = "resolved" THEN Resolved(Bool(TRUE)) ELSE Resolved(Bool(FALSE))

\* Variant: the results in the order in which the inspections were answered.
AnsweredInArrivalOrder(answers, j, answer) ==
    LET free == { k \in 1..Len(answers) : answers[k] = Undefined }
        first == CHOOSE k \in free : \A m \in free : k <= m
    IN [answers EXCEPT ![first] = answer]

\* Promise.all(pz): the result of the j-th promise takes the j-th place
Answered(answers, j, answer) == [answers EXCEPT ![j] = answer]

\* The copy of a listed network onto the handle this.getNetwork(network.Id)
Cast(network) ==
    Obj([k \in 1..Len(network[2]) |-> <<network[2][k][1], network[2][k][2]>>])

\* DockerHandler.prototype.listNetworks
listNetworks(reply) ==
    IF Truthy(reply.err) THEN Rejected(reply.err)
    ELSE IF reply.data = Null THEN Resolved(Null)
    ELSE Resolved(Arr([k \in 1..Len(reply.data[2]) |-> Cast(reply.data[2][k])]))

\* Variant: the first network of that name, however many there are.
FoundFirstOfName(reply, name) ==
    LET listed == listNetworks(reply)
        Named(network) == Prop(network, "Name") = Str(name)
        results == IF listed.value = Null THEN Null
                   ELSE Arr(SelectSeq(listed.value[2], Named))
    IN IF listed.kind = "rejected" THEN listed
       ELSE IF results = Null \/ Len(results[2]) = 0
            THEN Rejected(Str("No networks found"))
            ELSE Resolved(results[2][1])

\* DockerHandler.prototype.getNetworkByName, from the answer to the listing
Found(reply, name) ==
    LET listed == listNetworks(reply)
        Named(network) == Prop(network, "Name") = Str(name)
        results == IF listed.value = Null THEN Null
                   ELSE Arr(SelectSeq(listed.value[2], Named))
    IN IF listed.kind = "rejected" THEN listed
       ELSE IF results = Null \/ Len(results[2]) = 0
            THEN Rejected(Str("No networks found"))
            ELSE IF Len(results[2]) > 1
                 THEN Rejected(Str("More than one networks exist with name " \o name))
                 ELSE Resolved(results[2][1])

\* A name as the list of its characters.
Text(chars) == <<"string", chars>>

\* String.prototype.includes
Includes(chars, part) ==
    \E k \in 1..(Len(chars) - Len(part) + 1) :
       SubSeq(chars, k, k + Len(part) - 1) = part

RECURSIVE ExistingNames(_, _)
\* volumes.reduce(...): the names that include site_id
ExistingNames(volumes, site_id) ==
    IF volumes = <<>> THEN <<>>
    ELSE LET name == Prop(Head(volumes), "Name")
         IN (IF TypeOf(name) = "string" /\ Len(name[2]) > 0 /\ Includes(name[2], site_id)
             THEN <<name>> ELSE <<>>)
            \o ExistingNames(Tail(volumes), site_id)

\* DockerHandler.prototype.findExistingVolumes, from the answer to the listing
FoundVolumes(reply, site_id) ==
    IF Truthy(reply.err) THEN Rejected(reply.err)
    ELSE LET data == reply.data
             volumes == Prop(data, "Volumes")
         IN IF ~Truthy(volumes) THEN Resolved(Null)
            ELSE LET out == ExistingNames(volumes[2], site_id)
                 IN Resolved(data)

\* Variant: a network is created whether or not it was found.
CreateAlways(exist) == TRUE

\* if (exist) return Promise.resolve(), else the createNetwork request
CreateNeeded(exist) == exist # Bool(TRUE)

NoneDone == [method |-> "new", args |-> <<>>, outcome |-> NoOutcome, inspected |-> <<>>]

\* new DockerHandler(docker): nothing asked yet
HandlerIdle ==
    /\ docker = [up |-> TRUE, networks |-> <<>>, containers |-> {}, images |-> {},
                 volumes |-> Null]
    /\ pending = <<>>
    /\ requests = <<>>
    /\ done = NoneDone

\* A method is called: its request goes to the daemon and its promise is
\* pending.  A call is marked as overlapped when another is in flight with it.
Asked(method, args) ==
    /\ Len(pending) < MaxPending
    /\ pending' = Append([k \in 1..Len(pending) |-> [pending[k] EXCEPT !.overlapped = TRUE]],
                         [method |-> method, args |-> args, pc |-> "asked",
                          inspected |-> [j \in 1..Len(args) |-> Waiting],
                          answers |-> [j \in 1..Len(args) |-> Undefined],
                          overlapped |-> pending # <<>>])
    /\ UNCHANGED <<docker, requests, done, lifeVars, buildVars>>

\* The promise of the i-th call settles.
Settle(i, outcome, inspected) ==
    /\ pending' = Remove(pending, i)
    /\ done' = [method |-> pending[i].method, args |-> pending[i].args,
                outcome |-> outcome, inspected |-> inspected]

CreationsAhead ==
    Len(requests)
    + Cardinality({ k \in 1..Len(pending) :
                       pending[k].method = "createOverlayNetwork" /\ pending[k].pc = "asked" })

\* DockerHandler.prototype.createOverlayNetwork, up to the inspection request
createOverlayNetwork(id) ==
    /\ CreationsAhead < MaxRequests
    /\ Asked("createOverlayNetwork", <<id>>)

\* DockerHandler.prototype.getNetworkByName, up to the listing request
getNetworkByName(name) == Asked("getNetworkByName", <<name>>)

doesNetworkExist(id) == Asked("doesNetworkExist", <<id>>)
doesImageExist(id) == Asked("doesImageExist", <<id>>)
doesContainerExist(id) == Asked("doesContainerExist", <<id>>)
doContainersExist(ids) == Asked("doContainersExist", ids)
findExistingVolumes(site_id) == Asked("findExistingVolumes", <<site_id>>)

\* The callback of network.inspect runs: doesNetworkExist resolves;
\* createOverlayNetwork resolves too when the network exists and sends the
\* createNetwork request when it does not.
InspectNetworkReply(i) ==
    /\ i \in 1..Len(pending)
    /\ pending[i].method \in { "createOverlayNetwork", "doesNetworkExist" }
    /\ pending[i].pc = "asked"
    /\ LET id == pending[i].args[1]
           reply == NetworkInspection(docker, id)
           exist == Exists(Inspected(reply))
       IN IF pending[i].method = "doesNetworkExist"
          THEN /\ Settle(i, exist, <<reply>>)
               /\ UNCHANGED <<docker, requests>>
          ELSE IF CreateNeeded(exist.value)
               THEN /\ pending' = [pending EXCEPT ![i].pc = "creating",
                                                  ![i].inspected = <<reply>>]
                    /\ requests' = Append(requests,
                                          [Name |-> id, Driver |-> "overlay",
                                           overlapped |-> pending[i].overlapped])
                    /\ UNCHANGED <<docker, done>>
               ELSE /\ Settle(i, Resolved(Undefined), <<reply>>)
                    /\ UNCHANGED <<docker, requests>>
    /\ UNCHANGED <<lifeVars, buildVars>>

\* The callback of this.docker.createNetwork runs.  The daemon has created the
\* network, or has refused; of a name it already has it may make a second
\* network or refuse.
CreateNetworkReply(i, created) ==
    /\ i \in 1..Len(pending)
    /\ pending[i].pc = "creating"
    /\ LET id == pending[i].args[1] IN
       IF created
       THEN /\ docker.up
            /\ docker' = [docker EXCEPT
                             !.networks = Append(@, Network(ToString(Len(@) + 1), id))]
            /\ Settle(i, Resolved(Undefined), pending[i].inspected)
       ELSE /\ ~docker.up \/ NetworksFound(docker, id) # {}
            /\ Settle(i, Rejected(IF docker.up THEN Conflict ELSE Refused),
                      pending[i].inspected)
            /\ UNCHANGED docker
    /\ UNCHANGED <<requests, lifeVars, buildVars>>

\* The promise of this.docker.listNetworks settles: getNetworkByName settles.
ListNetworksReply(i, reply) ==
    /\ i \in 1..Len(pending)
    /\ pending[i].method = "getNetworkByName"
    /\ reply \in NetworkListings(docker)
    /\ Settle(i, Found(reply, pending[i].args[1]), <<reply>>)
    /\ UNCHANGED <<docker, requests, lifeVars, buildVars>>

\* The callback of image.inspect runs.
InspectImageReply(i) ==
    /\ i \in 1..Len(pending)
    /\ pending[i].method = "doesImageExist"
    /\ LET reply == ObjectInspection(docker, docker.images, pending[i].args[1])
       IN Settle(i, Exists(Inspected(reply)), <<reply>>)
    /\ UNCHANGED <<docker, requests, lifeVars, buildVars>>

\* The callback of the j-th container.inspect of a call runs:
\* doesContainerExist resolves; doContainersExist resolves once every
\* inspection is answered.
InspectContainerReply(i, j) ==
    /\ i \in 1..Len(pending)
    /\ pending[i].method \in { "doesContainerExist", "doContainersExist" }
    /\ j \in 1..Len(pending[i].args)
    /\ pending[i].inspected[j] = Waiting
    /\ LET reply == ObjectInspection(docker, docker.containers, pending[i].args[j])
           inspected == [pending[i].inspected EXCEPT ![j] = reply]
           now == Answered(pending[i].answers, j, Exists(Inspected(reply)).value)
       IN IF pending[i].method = "doesContainerExist"
          THEN Settle(i, Exists(Inspected(reply)), inspected)
          ELSE IF \E k \in 1..Len(now) : now[k] = Undefined
               THEN /\ pending' = [pending EXCEPT ![i].answers = now,
                                                  ![i].inspected = inspected]
                    /\ UNCHANGED done
               ELSE Settle(i, Resolved(Arr(now)), inspected)
    /\ UNCHANGED <<docker, requests, lifeVars, buildVars>>

\* Promise.all of no promise at all
NoContainersReply(i) ==
    /\ i \in 1..Len(pending)
    /\ pending[i].method = "doContainersExist"
    /\ pending[i].args = <<>>
    /\ Settle(i, Resolved(Arr(<<>>)), <<>>)
    /\ UNCHANGED <<docker, requests, lifeVars, buildVars>>

\* The callback of this.docker.listVolumes runs: findExistingVolumes settles.
ListVolumesReply(i) ==
    /\ i \in 1..Len(pending)
    /\ pending[i].method = "findExistingVolumes"
    /\ LET reply == VolumeListing(docker)
       IN Settle(i, FoundVolumes(reply, pending[i].args[1]), <<reply>>)
    /\ UNCHANGED <<docker, requests, lifeVars, buildVars>>

-----------------------------------------------------------------------------
(* Specifications.                                                         *)

NoCall == [seq |-> 0, method |-> "new", params |-> <<>>, result |-> "returned",
           argv |-> <<>>]
NoInvocation == [method |-> "new", args |-> <<>>]
NoSpawn == [overlay |-> Undefined, env |-> InheritedEnv]

\* new DockerCompose(): neither this.opts nor this.env exists yet.
LifeInit ==
    /\ opts = Undefined
    /\ env = Undefined
    /\ procEnv = InheritedEnv
    /\ calls = <<>>
    /\ lastCall = NoCall
    /\ lastSpawn = NoSpawn
    /\ settled = NoOutcome
    /\ lastInit = Undefined
    /\ envFresh = FALSE
    /\ invoked = NoInvocation

BuildIdle ==
    /\ bModule = "lib"
    /\ bInput = Undefined
    /\ bOut = <<>>
    /\ bDone = FALSE

Init == LifeInit /\ BuildIdle /\ HandlerIdle

\* The instance under any interleaving of calls and completions, up to
\* MaxInFlight children at a time.  The children write nothing: their output
\* reaches only the buffers of their own call.
Next ==
    \/ \E o \in PrimaryOptions : putInitParams(o)
    \/ \E e \in Overlays : putEnv(e)
    \/ \E o \in {Undefined}, s \in {Str("web")}, x \in {Str("80")} :
          up(o) /\ Called("up", <<o, s, x>>)
    \/ \E o \in {Undefined}, s \in {Str("web")}, x \in {Str("80")} :
          down(o) /\ Called("down", <<o, s, x>>)
    \/ \E o \in {Undefined}, s \in {Str("web")}, x \in {Str("80")} :
          ps(o) /\ Called("ps", <<o, s, x>>)
    \/ \E o \in {Undefined}, s \in {Str("web")}, x \in {Str("80")} :
          start(o, s) /\ Called("start", <<o, s, x>>)
    \/ \E o \in {Undefined}, s \in {Str("web")}, x \in {Str("80")} :
          stop(o, s) /\ Called("stop", <<o, s, x>>)
    \/ \E o \in {Undefined}, s \in {Str("web")}, x \in {Str("80")} :
          restart(o, s) /\ Called("restart", <<o, s, x>>)
    \/ \E o \in {Undefined}, s \in {Str("web")}, x \in {Str("80")} :
          kill(o, s) /\ Called("kill", <<o, s, x>>)
    \/ \E o \in {Undefined}, s \in {Str("web")}, x \in {Str("80")} :
          pull(o, s) /\ Called("pull", <<o, s, x>>)
    \/ \E o \in {Undefined}, s \in {Str("web")}, x \in {Str("80")} :
          create(o, s) /\ Called("create", <<o, s, x>>)
    \/ \E o \in {Undefined}, s \in {Str("web")}, x \in {Str("80")} :
          version(o) /\ Called("version", <<o, s, x>>)
    \/ \E o \in {Undefined}, s \in {Str("web")}, x \in {Str("80")} :
          pause(o, s) /\ Called("pause", <<o, s, x>>)
    \/ \E o \in {Undefined}, s \in {Str("web")}, x \in {Str("80")} :
          unpause(o, s) /\ Called("unpause", <<o, s, x>>)
    \/ \E o \in {Undefined}, s \in {Str("web")}, x \in {Str("80")} :
          scale(o, s) /\ Called("scale", <<o, s, x>>)
    \/ \E o \in {Undefined}, s \in {Str("web")}, x \in {Str("80")} :
          rm(o, s) /\ Called("rm", <<o, s, x>>)
    \/ \E o \in {Undefined}, s \in {Str("web")}, x \in {Str("80")} :
          port(o, s, x) /\ Called("port", <<o, s, x>>)
    \/ \E o \in {Undefined}, s \in {Str("web")}, x \in {Str("80")} :
          run(o, s, x) /\ Called("run", <<o, s, x>>)
    \/ \E i \in 1..MaxInFlight, c \in {Num(0), Num(1)} : Close(i, c)
    \/ \E i \in 1..MaxInFlight : Finally(i)

Spec == Init /\ [][Next]_vars

\* The same with the failures of the child process and of its streams.
FailureNext ==
    \/ Next
    \/ \E i \in 1..MaxInFlight : SpawnError(i)
    \/ \E i \in 1..MaxInFlight : StreamError(i)

FailureSpec == Init /\ [][FailureNext]_vars

\* A configured instance: putInitParams and putEnv have been called.
ArgsInit ==
    /\ \E o \in {Empty, ComposeFiles, Verbose} :
          opts = o /\ lastInit = o
    /\ env = Empty
    /\ envFresh = TRUE
    /\ procEnv = InheritedEnv
    /\ calls = <<>>
    /\ lastCall = NoCall
    /\ lastSpawn = NoSpawn
    /\ settled = NoOutcome
    /\ invoked = NoInvocation
    /\ BuildIdle
    /\ HandlerIdle

\* The first call on a configured instance, with every shape of argument, and
\* its completion.
ArgsNext ==
    \/ lastCall = NoCall /\ \E o \in SubOptions, s \in Services, x \in Extras :
          up(o) /\ Called("up", <<o, s, x>>)
    \/ lastCall = NoCall /\ \E o \in SubOptions, s \in Services, x \in Extras :
          down(o) /\ Called("down", <<o, s, x>>)
    \/ lastCall = NoCall /\ \E o \in SubOptions, s \in Services, x \in Extras :
          ps(o) /\ Called("ps", <<o, s, x>>)
    \/ lastCall = NoCall /\ \E o \in SubOptions, s \in Services, x \in Extras :
          start(o, s) /\ Called("start", <<o, s, x>>)
    \/ lastCall = NoCall /\ \E o \in SubOptions, s \in Services, x \in Extras :
          stop(o, s) /\ Called("stop", <<o, s, x>>)
    \/ lastCall = NoCall /\ \E o \in SubOptions, s \in Services, x \in Extras :
          restart(o, s) /\ Called("restart", <<o, s, x>>)
    \/ lastCall = NoCall /\ \E o \in SubOptions, s \in Services, x \in Extras :
          kill(o, s) /\ Called("kill", <<o, s, x>>)
    \/ lastCall = NoCall /\ \E o \in SubOptions, s \in Services, x \in Extras :
          pull(o, s) /\ Called("pull", <<o, s, x>>)
    \/ lastCall = NoCall /\ \E o \in SubOptions, s \in Services, x \in Extras :
          create(o, s) /\ Called("create", <<o, s, x>>)
    \/ lastCall = NoCall /\ \E o \in SubOptions, s \in Services, x \in Extras :
          version(o) /\ Called("version", <<o, s, x>>)
    \/ lastCall = NoCall /\ \E o \in SubOptions, s \in Services, x \in Extras :
          pause(o, s) /\ Called("pause", <<o, s, x>>)
    \/ lastCall = NoCall /\ \E o \in SubOptions, s \in Services, x \in Extras :
          unpause(o, s) /\ Called("unpause", <<o, s, x>>)
    \/ lastCall = NoCall /\ \E o \in SubOptions, s \in Services, x \in Extras :
          scale(o, s) /\ Called("scale", <<o, s, x>>)
    \/ lastCall = NoCall /\ \E o \in SubOptions, s \in Services, x \in Extras :
          rm(o, s) /\ Called("rm", <<o, s, x>>)
    \/ lastCall = NoCall /\ \E o \in SubOptions, s \in Services, x \in Extras :
          port(o, s, x) /\ Called("port", <<o, s, x>>)
    \/ lastCall = NoCall /\ \E o \in SubOptions, s \in Services, x \in Extras :
          run(o, s, x) /\ Called("run", <<o, s, x>>)
    \/ Close(1, Num(0))
    \/ Finally(1)

ArgsSpec == ArgsInit /\ [][ArgsNext]_vars

\* One call at a time, with the child's output and every exit status.
OutputNext ==
    \/ putInitParams(Empty)
    \/ putEnv(Empty)
    \/ calls = <<>> /\ \E o \in {Undefined}, s \in {Str("web")}, x \in {Str("80")} :
          up(o) /\ Called("up", <<o, s, x>>)
    \/ calls = <<>> /\ \E o \in {Undefined}, s \in {Str("web")}, x \in {Str("80")} :
          down(o) /\ Called("down", <<o, s, x>>)
    \/ calls = <<>> /\ \E o \in {Undefined}, s \in {Str("web")}, x \in {Str("80")} :
          ps(o) /\ Called("ps", <<o, s, x>>)
    \/ calls = <<>> /\ \E o \in {Undefined}, s \in {Str("web")}, x \in {Str("80")} :
          start(o, s) /\ Called("start", <<o, s, x>>)
    \/ calls = <<>> /\ \E o \in {Undefined}, s \in {Str("web")}, x \in {Str("80")} :
          stop(o, s) /\ Called("stop", <<o, s, x>>)
    \/ calls = <<>> /\ \E o \in {Undefined}, s \in {Str("web")}, x \in {Str("80")} :
          restart(o, s) /\ Called("restart", <<o, s, x>>)
    \/ calls = <<>> /\ \E o \in {Undefined}, s \in {Str("web")}, x \in {Str("80")} :
          kill(o, s) /\ Called("kill", <<o, s, x>>)
    \/ calls = <<>> /\ \E o \in {Undefined}, s \in {Str("web")}, x \in {Str("80")} :
          pull(o, s) /\ Called("pull", <<o, s, x>>)
    \/ calls = <<>> /\ \E o \in {Undefined}, s \in {Str("web")}, x \in {Str("80")} :
          create(o, s) /\ Called("create", <<o, s, x>>)
    \/ calls = <<>> /\ \E o \in {Undefined}, s \in {Str("web")}, x \in {Str("80")} :
          version(o) /\ Called("version", <<o, s, x>>)
    \/ calls = <<>> /\ \E o \in {Undefined}, s \in {Str("web")}, x \in {Str("80")} :
          pause(o, s) /\ Called("pause", <<o, s, x>>)
    \/ calls = <<>> /\ \E o \in {Undefined}, s \in {Str("web")}, x \in {Str("80")} :
          unpause(o, s) /\ Called("unpause", <<o, s, x>>)
    \/ calls = <<>> /\ \E o \in {Undefined}, s \in {Str("web")}, x \in {Str("80")} :
          scale(o, s) /\ Called("scale", <<o, s, x>>)
    \/ calls = <<>> /\ \E o \in {Undefined}, s \in {Str("web")}, x \in {Str("80")} :
          rm(o, s) /\ Called("rm", <<o, s, x>>)
    \/ calls = <<>> /\ \E o \in {Undefined}, s \in {Str("web")}, x \in {Str("80")} :
          port(o, s, x) /\ Called("port", <<o, s, x>>)
    \/ calls = <<>> /\ \E o \in {Undefined}, s \in {Str("web")}, x \in {Str("80")} :
          run(o, s, x) /\ Called("run", <<o, s, x>>)
    \/ \E d \in Chunks : StdoutData(1, d)
    \/ \E d \in Chunks : StderrData(1, d)
    \/ \E c \in ExitCodes : Close(1, c)
    \/ Finally(1)

OutputSpec == Init /\ [][OutputNext]_vars

\* The same under the scheduling of promise callbacks: the finalizer of a
\* settled promise runs.  Nothing makes a child terminate.
OutputFairSpec == Init /\ [][OutputNext]_vars /\ WF_vars(Finally(1))

-----------------------------------------------------------------------------
(* The argument builder on its own, over every small options mapping.      *)

FlagNames == { "f", "no", "file" }
ScalarValues == { Str("x"), Str(""), Num(0), Bool(TRUE), Null }
ListElements == { Str("a"), Str("b"), Str("") }
ListValues == { Arr(l) : l \in UNION { [1..n -> ListElements] : n \in 0..MaxList } }

Mappings ==
    { Obj(e) : e \in UNION { { m \in [1..n -> FlagNames \X (ScalarValues \cup ListValues)] :
                                 \A i, j \in 1..n : i # j => m[i][1] # m[j][1] }
                             : n \in 0..MaxKeys } }

BuildInit ==
    /\ LifeInit
    /\ bModule \in { "lib", "index" }
    /\ bInput \in { Undefined, Null, ComposeFiles } \cup Mappings
    /\ bOut = <<>>
    /\ bDone = FALSE
    /\ HandlerIdle

\* this._buildParams(opts) of lib/docker-compose.js
BuildLib ==
    /\ bModule = "lib"
    /\ ~bDone
    /\ bOut' = _buildParams(bInput)
    /\ bDone' = TRUE
    /\ UNCHANGED <<lifeVars, bModule, bInput, handlerVars>>

\* this._buildParams(opts) of index.js
BuildIndex ==
    /\ bModule = "index"
    /\ ~bDone
    /\ bOut' = index_buildParams(bInput)
    /\ bDone' = TRUE
    /\ UNCHANGED <<lifeVars, bModule, bInput, handlerVars>>

BuildNext == BuildLib \/ BuildIndex

BuildSpec == BuildInit /\ [][BuildNext]_vars

-----------------------------------------------------------------------------
(* The handler's network methods, with calls that overlap.                 *)

NetworkNames == { "site", "other" }

SomeNetworks ==
    { <<>>,
      << Network("1", "site") >>,
      << Network("1", "other"), Network("2", "other") >> }

NetworkInit ==
    /\ LifeInit
    /\ BuildIdle
    /\ docker \in { [up |-> TRUE, networks |-> n, containers |-> {}, images |-> {},
                      volumes |-> Null] : n \in SomeNetworks }
    /\ pending = <<>>
    /\ requests = <<>>
    /\ done = NoneDone

NetworkNext ==
    \/ \E id \in NetworkNames : createOverlayNetwork(id)
    \/ \E name \in NetworkNames : getNetworkByName(name)
    \/ \E id \in NetworkNames : doesNetworkExist(id)
    \/ \E i \in 1..MaxPending : InspectNetworkReply(i)
    \/ \E i \in 1..MaxPending, created \in BOOLEAN : CreateNetworkReply(i, created)
    \/ \E i \in 1..MaxPending, reply \in NetworkListings(docker) : ListNetworksReply(i, reply)

NetworkSpec == NetworkInit /\ [][NetworkNext]_vars

-----------------------------------------------------------------------------
(* The handler's existence checks and its search for volumes, against a    *)
(* daemon that answers or refuses.                                         *)

Volume(chars) == Obj(<< <<"Name", Text(chars)>> >>)

SomeVolumes ==
    { Null,
      Arr(<<>>),
      Arr(<< Volume(<<"a", "-", "d">>), Volume(<<"a", "b", "-", "d">>), Obj(<<>>) >>) }

Sites == { <<"a">>, <<"a", "b">>, <<"c">> }

ImageNames == { "nginx", "redis" }
ContainerNames == { "web", "db" }
ContainerLists == { <<>>, <<"web", "db">>, <<"db", "web">> }

HandlerInit ==
    /\ LifeInit
    /\ BuildIdle
    /\ docker \in { [up |-> u, networks |-> << Network("1", "site") >>,
                      containers |-> c, images |-> {"nginx"}, volumes |-> v] :
                        u \in BOOLEAN, c \in { {"web"}, {"web", "db"} }, v \in SomeVolumes }
    /\ pending = <<>>
    /\ requests = <<>>
    /\ done = NoneDone

HandlerNext ==
    \/ \E id \in NetworkNames : doesNetworkExist(id)
    \/ \E id \in ImageNames : doesImageExist(id)
    \/ \E id \in ContainerNames : doesContainerExist(id)
    \/ \E ids \in ContainerLists : doContainersExist(ids)
    \/ \E site_id \in Sites : findExistingVolumes(site_id)
    \/ \E i \in 1..MaxPending : InspectNetworkReply(i)
    \/ \E i \in 1..MaxPending : InspectImageReply(i)
    \/ \E i \in 1..MaxPending, j \in 1..2 : InspectContainerReply(i, j)
    \/ \E i \in 1..MaxPending : NoContainersReply(i)
    \/ \E i \in 1..MaxPending : ListVolumesReply(i)

HandlerSpec == HandlerInit /\ [][HandlerNext]_vars

-----------------------------------------------------------------------------
(* Vocabulary of the properties.                                           *)

OperationNames ==
    { "up", "down", "ps", "start", "stop", "restart", "kill", "pull", "create",
      "version", "pause", "unpause", "scale", "rm", "port", "run" }

\* A step that is a call of one of the sixteen operations.
OperationStep == lastCall'.seq # lastCall.seq /\ lastCall'.method \in OperationNames

\* A step in which the promise of a spawned operation settles.
CompletionStep == Len(calls') < Len(calls)

IsUnset(v) == v \in { Undefined, Null }
Falsy(v) == v \in { Undefined, Null, Str(""), Num(0), Bool(FALSE) }

\* The flag of a key: one dash for a one-character key, two dashes otherwise.
Dashed(key) == Str((IF Len(key) = 1 THEN "-" ELSE "--") \o key)

\* Number of tokens a value contributes: a flag per element of a list (lib
\* only), a flag otherwise, and a value token after each flag whose value is
\* truthy.
TokensFor(module, v) ==
    IF IsArray(v) /\ module = "lib"
    THEN Len(v[2]) + Cardinality({ j \in 1..Len(v[2]) : ~Falsy(v[2][j]) })
    ELSE IF Falsy(v) THEN 1 ELSE 2

RECURSIVE Offset(_, _, _)
\* Number of tokens contributed by the entries before the i-th.
Offset(module, entries, i) ==
    IF i <= 1 THEN 0
    ELSE Offset(module, entries, i - 1) + TokensFor(module, entries[i - 1][2])

\* Place, within the tokens of a list value, of the flag of its j-th element.
ElementPlace(items, j) == j + Cardinality({ m \in 1..(j - 1) : ~Falsy(items[m]) })

\* Places, within the tokens of one value, where its flag tokens stand.
FlagPlaces(module, v) ==
    IF IsArray(v) /\ module = "lib"
    THEN { ElementPlace(v[2], j) : j \in 1..Len(v[2]) }
    ELSE { 1 }

BuiltFromMapping == bDone /\ TypeOf(bInput) = "object"

-----------------------------------------------------------------------------
(* C8.  A list-valued flag of N elements is emitted N times by the builder *)
(* of lib/docker-compose, in list order, each occurrence immediately       *)
(* followed by its element when the element is truthy and by nothing when  *)
(* it is falsy; an empty list emits no token.                              *)

ListFlagRepeated ==
    (BuiltFromMapping /\ bModule = "lib") =>
        LET e == bInput[2] IN
        /\ Len(bOut) = Offset("lib", e, Len(e) + 1)
        /\ \A i \in 1..Len(e) :
              IsArray(e[i][2]) =>
                 LET items == e[i][2][2]
                     off == Offset("lib", e, i)
                 IN \A j \in 1..Len(items) :
                       LET at == off + ElementPlace(items, j) IN
                       /\ at <= Len(bOut)
                       /\ bOut[at] = Dashed(e[i][1])
                       /\ ~Falsy(items[j]) =>
                             /\ at + 1 <= Len(bOut)
                             /\ bOut[at + 1] = items[j]

ListFlagRepeatedWitness ==
    /\ bDone
    /\ bModule = "lib"
    /\ bInput = Obj(<< <<"f", Arr(<<Str("a"), Str("")>>)>>, <<"no", Arr(<<>>)>> >>)
    /\ bOut = <<Str("-f"), Str("a"), Str("-f")>>

-----------------------------------------------------------------------------
(* C9.  Every flag token the builder emits is the key prefixed with one    *)
(* dash when the key has one character and with two dashes when it has     *)
(* more, for scalar, falsy and list values, in both modules.               *)

FlagTokensDashed ==
    BuiltFromMapping =>
        LET e == bInput[2] IN
        \A i \in 1..Len(e) :
           \A r \in FlagPlaces(bModule, e[i][2]) :
              LET at == Offset(bModule, e, i) + r IN
              /\ at <= Len(bOut)
              /\ bOut[at] = Dashed(e[i][1])

FlagTokensDashedWitness ==
    /\ bDone
    /\ bModule = "lib"
    /\ bInput = Obj(<< <<"no", Arr(<<Str("a"), Str("b")>>)>>, <<"f", Str("")>> >>)
    /\ bOut = <<Str("--no"), Str("a"), Str("--no"), Str("b"), Str("-f")>>

-----------------------------------------------------------------------------
(* C10.  For a mapping whose values are all scalars the builder's output   *)
(* has 2 * (keys with a truthy value) + (keys with a falsy value) tokens;  *)
(* an absent or null mapping yields the empty sequence.                    *)

ScalarsOnly(entries) == \A i \in 1..Len(entries) : ~IsArray(entries[i][2])

ScalarOutputLength ==
    bDone =>
        /\ IsUnset(bInput) => bOut = <<>>
        /\ (TypeOf(bInput) = "object" /\ ScalarsOnly(bInput[2])) =>
              LET e == bInput[2] IN
              Len(bOut) = 2 * Cardinality({ i \in 1..Len(e) : ~Falsy(e[i][2]) })
                          + Cardinality({ i \in 1..Len(e) : Falsy(e[i][2]) })

ScalarOutputLengthWitness ==
    /\ bDone
    /\ bModule = "index"
    /\ bInput = Obj(<< <<"file", Str("x")>>, <<"f", Num(0)>> >>)
    /\ Len(bOut) = 3

-----------------------------------------------------------------------------
(* C1.  An operation called while this.opts or this.env is unset throws    *)
(* the usage error: no process is spawned and this.opts and this.env stay  *)
(* as they were.                                                           *)

UsageErrorBeforeSpawn ==
    [][(OperationStep /\ (IsUnset(opts) \/ IsUnset(env))) =>
          /\ lastCall'.result = "threw"
          /\ lastCall'.argv = <<>>
          /\ calls' = calls
          /\ lastSpawn' = lastSpawn
          /\ procEnv' = procEnv
          /\ opts' = opts
          /\ env' = env]_vars

UsageErrorWitness ==
    /\ lastCall.method = "port"
    /\ lastCall.result = "threw"
    /\ opts = ComposeFiles
    /\ env = Null
    /\ settled.kind = "resolved"
    /\ calls = <<>>

-----------------------------------------------------------------------------
(* C2.  When the promise of a spawned operation settles, resolved or       *)
(* rejected, this.env is null.                                             *)

EnvClearedOnCompletion ==
    [][CompletionStep =>
          /\ settled'.kind \in { "resolved", "rejected" }
          /\ env' = Null]_vars

EnvClearedWitness ==
    /\ settled.kind = "rejected"
    /\ env = Null
    /\ lastCall.result = "promise"
    /\ lastSpawn.overlay # Null
    /\ calls = <<>>

-----------------------------------------------------------------------------
(* C3.  this.opts is changed by putInitParams alone: it always equals the  *)
(* argument of the last putInitParams call.                                *)

PrimaryOptionsKept == opts = lastInit

PrimaryOptionsKeptWitness ==
    /\ opts = Verbose
    /\ settled.kind = "rejected"
    /\ lastCall.result = "threw"
    /\ lastCall.method = "up"
    /\ env = Null

-----------------------------------------------------------------------------
(* C4.  The exit status alone decides the outcome: status zero resolves    *)
(* with the standard-output chunks joined in arrival order; any other      *)
(* status rejects with "Command exited: <status>\n" followed by the        *)
(* standard-error chunks joined in arrival order.                          *)

RECURSIVE Joined(_)
Joined(chunks) == IF chunks = <<>> THEN "" ELSE Head(chunks) \o Joined(Tail(chunks))

StatusText(code) == IF code = Null THEN "null" ELSE ToString(code[2])

ExpectedOutcome(child) ==
    IF child.code = Num(0)
    THEN [kind |-> "resolved", value |-> Joined(child.outChunks)]
    ELSE [kind |-> "rejected",
          value |-> "Command exited: " \o StatusText(child.code) \o "\n"
                    \o Joined(child.errChunks)]

OutcomeByExitStatus ==
    [][\A i \in 1..Len(calls) :
          (calls[i].state = "closed" /\ calls' = Remove(calls, i)) =>
              settled' = ExpectedOutcome(calls[i])]_vars

OutcomeWitness ==
    /\ settled = [kind |-> "rejected", value |-> "Command exited: 1\nba"]
    /\ Len(calls) = 1
    /\ calls[1].state = "closed"
    /\ calls[1].code = Num(0)
    /\ calls[1].outChunks = <<"a">>
    /\ calls[1].errChunks = <<"b">>
    /\ calls[1].outcome = [kind |-> "resolved", value |-> "a"]

-----------------------------------------------------------------------------
(* C5.  The argument vector handed to spawn is the builder's tokens of     *)
(* this.opts, the subcommand, the builder's tokens of the sub-operation    *)
(* options, the targets (a string as one token, a list as its elements)    *)
(* and the extra argument as one raw token, in this order and nothing      *)
(* else; a group that was not given (or is an empty value) is left out.    *)

Given(v) == ~Falsy(v)

ArgumentVectorOrder ==
    (lastCall.method \in OperationNames /\ lastCall.result = "promise") =>
        LET a == lastCall.argv
            o == lastCall.params[1]
            s == lastCall.params[2]
            x == lastCall.params[3]
            P == _buildParams(opts)
            S == IF Given(o) THEN _buildParams(o) ELSE <<>>
            T == IF Given(s) THEN (IF IsArray(s) THEN s[2] ELSE <<s>>) ELSE <<>>
            X == IF Given(x) THEN <<x>> ELSE <<>>
        IN /\ Len(a) = Len(P) + 1 + Len(S) + Len(T) + Len(X)
           /\ SubSeq(a, 1, Len(P)) = P
           /\ a[Len(P) + 1] = Str(lastCall.method)
           /\ SubSeq(a, Len(P) + 2, Len(P) + 1 + Len(S)) = S
           /\ SubSeq(a, Len(P) + Len(S) + 2, Len(P) + Len(S) + 1 + Len(T)) = T
           /\ SubSeq(a, Len(P) + Len(S) + Len(T) + 2, Len(a)) = X

ArgumentVectorWitness ==
    /\ lastCall.method = "run"
    /\ lastCall.params = << Obj(<< <<"timeout", Str("5")>>, <<"t", Arr(<<Str("x")>>)>> >>),
                            Arr(<<Str("web"), Str("db")>>), Str("-c") >>
    /\ lastCall.argv = << Str("-f"), Str("a.yml"), Str("-f"), Str("b.yml"),
                          Str("-p"), Str("proj"), Str("run"),
                          Str("--timeout"), Str("5"), Str("-t"), Str("x"),
                          Str("web"), Str("db"), Str("-c") >>

-----------------------------------------------------------------------------
(* C6.  An overlay applies to one invocation only: a variable that only    *)
(* the previous operation's overlay set (it is neither in this operation's *)
(* overlay nor inherited) is not in the environment of this operation's    *)
(* child.  Stated for an operation called after every earlier one          *)
(* completed, the case in which the overlay has been discarded.            *)

OverlayKeys(overlay) ==
    IF TypeOf(overlay) = "object"
    THEN { overlay[2][i][1] : i \in 1..Len(overlay[2]) }
    ELSE {}

SpawnStep == OperationStep /\ lastCall'.result = "promise"

OverlayDiscarded ==
    [][(SpawnStep /\ calls = <<>>) =>
          \A k \in OverlayKeys(lastSpawn.overlay) :
             (k \notin OverlayKeys(lastSpawn'.overlay) /\ k \notin DOMAIN InheritedEnv)
                => k \notin DOMAIN lastSpawn'.env]_vars

-----------------------------------------------------------------------------
(* C7.  As claimed: an operation called with no putEnv since the previous  *)
(* spawning call throws the usage error, also when that previous call is   *)
(* still in flight.                                                        *)

OverlayResuppliedPerCall ==
    [][(OperationStep /\ ~envFresh) => lastCall'.result = "threw"]_vars

(* C7, amended.  An operation called once every earlier operation has      *)
(* completed, with no putEnv since the previous spawning call, throws the  *)
(* usage error although this.opts is still what putInitParams set; so      *)
(* between two spawning calls of which the second is made after the first  *)
(* completed there is a putEnv call.                                       *)

OverlayResuppliedAfterCompletion ==
    [][(OperationStep /\ calls = <<>> /\ ~envFresh) =>
          /\ lastCall'.result = "threw"
          /\ opts' = lastInit]_vars

OverlayResuppliedWitness ==
    /\ lastCall.method = "start"
    /\ lastCall.result = "threw"
    /\ ~envFresh
    /\ opts = ComposeFiles
    /\ env = Null
    /\ settled.kind = "resolved"
    /\ calls = <<>>

-----------------------------------------------------------------------------
(* C11.  As claimed: for the Primary Options {f: ["a.yml","b.yml"],        *)
(* p: "proj"} the builder of lib/docker-compose returns                    *)
(* ["-f","a.yml","-f","b.yml","--p","proj"].                               *)

ExampleOutputAsClaimed ==
    (bDone /\ bModule = "lib" /\ bInput = ComposeFiles) =>
        bOut = << Str("-f"), Str("a.yml"), Str("-f"), Str("b.yml"),
                  Str("--p"), Str("proj") >>

(* C11, amended.  For the Primary Options {f: ["a.yml","b.yml"],           *)
(* p: "proj"} the builder of lib/docker-compose returns                    *)
(* ["-f","a.yml","-f","b.yml","-p","proj"]: the one-character key p gets   *)
(* one dash.                                                               *)

ExampleOutput ==
    (bDone /\ bModule = "lib" /\ bInput = ComposeFiles) =>
        bOut = << Str("-f"), Str("a.yml"), Str("-f"), Str("b.yml"),
                  Str("-p"), Str("proj") >>

ExampleOutputWitness ==
    /\ bDone
    /\ bModule = "lib"
    /\ bInput = ComposeFiles
    /\ Len(bOut) = 6
    /\ bOut[5] = Str("-p")

-----------------------------------------------------------------------------
(* C12.  The environment handed to spawn is the environment of the host    *)
(* process at the call with the overlay on top: its variables are those of *)
(* the two together, every variable of the overlay has the overlay's value *)
(* (as the string an environment holds), also when it was inherited, and   *)
(* every other inherited variable keeps its value.                         *)

EnvOverlayOnTop ==
    [][SpawnStep =>
          LET given == lastSpawn'.env IN
          /\ lastSpawn'.overlay = env
          /\ DOMAIN given = DOMAIN procEnv \cup OverlayKeys(env)
          /\ \A i \in 1..Len(env[2]) :
                given[env[2][i][1]] = JsString(env[2][i][2])
          /\ \A n \in DOMAIN procEnv \ OverlayKeys(env) :
                given[n] = procEnv[n]]_vars

EnvOverlayOnTopWitness ==
    /\ lastCall.result = "promise"
    /\ Len(calls) = 1
    /\ lastSpawn.overlay = Obj(<< <<"PATH", Str("/opt/bin")>> >>)
    /\ lastSpawn.env["PATH"] = "/opt/bin"
    /\ "DIYA_REPO" \notin DOMAIN lastSpawn.env

-----------------------------------------------------------------------------
(* C13.  Every operation hands to _execute its own name and the parameters *)
(* it declares, whatever else the caller gave: up, down, ps and version    *)
(* the options alone; start, stop, restart, kill, pull, create, pause,     *)
(* unpause, scale and rm the options and the targets; port and run the     *)
(* options, the target and the extra argument.  The argument vector is     *)
(* built from these alone, so start with the target "web" and no options   *)
(* spawns with the Primary Options' tokens, "start", "web".                *)

DeclaredParameters(method) ==
    IF method \in { "up", "down", "ps", "version" } THEN 1
    ELSE IF method \in { "port", "run" } THEN 3
    ELSE 2

\* The arguments a method hands on, of those the caller gave.
HandedOn(method, args) ==
    [i \in 1..3 |-> IF i <= DeclaredParameters(method) THEN args[i] ELSE Undefined]

OwnNameAndDeclaredParameters ==
    lastCall.method \in OperationNames =>
        LET a == HandedOn(invoked.method, invoked.args) IN
        /\ lastCall.method = invoked.method
        /\ lastCall.params = a
        /\ lastCall.result = "promise" =>
              lastCall.argv =
                 _buildParams(opts)
                 \o <<Str(invoked.method)>>
                 \o (IF Given(a[1]) THEN _buildParams(a[1]) ELSE <<>>)
                 \o (IF Given(a[2]) THEN (IF IsArray(a[2]) THEN a[2][2] ELSE <<a[2]>>)
                     ELSE <<>>)
                 \o (IF Given(a[3]) THEN <<a[3]>> ELSE <<>>)
        /\ (lastCall.result = "promise" /\ invoked.method = "start"
               /\ invoked.args[1] = Undefined /\ invoked.args[2] = Str("web")) =>
              lastCall.argv = _buildParams(opts) \o <<Str("start"), Str("web")>>

OwnNameWitness ==
    /\ invoked = [method |-> "start", args |-> <<Undefined, Str("web"), Str("-c")>>]
    /\ opts = ComposeFiles
    /\ lastCall.result = "promise"
    /\ lastCall.argv = << Str("-f"), Str("a.yml"), Str("-f"), Str("b.yml"),
                          Str("-p"), Str("proj"), Str("start"), Str("web") >>

-----------------------------------------------------------------------------
(* C18.  this.env is shared by the calls in flight: when an operation      *)
(* completes after a putEnv that followed its call, its finalizer clears   *)
(* the overlay that putEnv installed; an operation called next, before     *)
(* another putEnv, throws the usage error although putEnv was called for   *)
(* it.                                                                     *)

SharedOverlayCleared ==
    [][/\ (CompletionStep /\ envFresh) => env' = Null
       /\ (OperationStep /\ lastCall.method = "putEnv" /\ Truthy(lastCall.params[1])
              /\ env = Null) =>
             lastCall'.result = "threw"]_vars

SharedOverlayClearedWitness ==
    /\ lastCall.method = "putEnv"
    /\ lastCall.params = << Obj(<< <<"PATH", Str("/opt/bin")>> >>) >>
    /\ envFresh
    /\ env = Null
    /\ opts = ComposeFiles
    /\ settled.kind = "resolved"
    /\ lastSpawn.overlay = Obj(<< <<"DIYA_REPO", Str("master")>> >>)
    /\ calls = <<>>

-----------------------------------------------------------------------------
(* C19.  The promise of a spawned operation settles once, at the close of  *)
(* its child: while the child runs the promise is pending, whatever the    *)
(* child has written; nothing reaches the caller except at a completion,   *)
(* and then it is the outcome fixed at the close event; a closed child's   *)
(* outcome never changes; and once the child has closed the caller's       *)
(* promise is eventually settled that way.                                 *)

PendingWhileRunning ==
    \A i \in 1..Len(calls) :
       calls[i].state = "running" => calls[i].outcome = NoOutcome

SettledAtCompletionOnly ==
    settled' # settled =>
       \E i \in 1..Len(calls) :
          /\ calls[i].state = "closed"
          /\ calls' = Remove(calls, i)
          /\ settled' = calls[i].outcome
          /\ settled'.kind \in { "resolved", "rejected" }

OutcomeFixedAtClose ==
    \A i \in 1..Len(calls) :
       calls[i].state = "closed" =>
          \/ calls' = Remove(calls, i)
          \/ i \in 1..Len(calls') /\ calls'[i] = calls[i]

SettlesOnceAtClose ==
    /\ []PendingWhileRunning
    /\ [][SettledAtCompletionOnly /\ OutcomeFixedAtClose]_vars
    /\ \A k \in { "resolved", "rejected" } :
          (Len(calls) = 1 /\ calls[1].state = "closed" /\ calls[1].outcome.kind = k)
             ~> (calls = <<>> /\ settled.kind = k)

SettlesOnceWitness ==
    /\ calls = <<>>
    /\ settled = [kind |-> "resolved", value |-> "ab"]
    /\ lastCall.result = "promise"
    /\ env = Null

-----------------------------------------------------------------------------
(* C20.  A failure to start the child, or an error of one of its streams,  *)
(* is surfaced to the caller: the promise of the call is rejected with     *)
(* that error and none else, and once the caller has it this.env is null.  *)

ErrorRejects ==
    \A i \in 1..Len(calls) :
       calls[i].raised # <<>> =>
          calls[i].outcome = [kind |-> "rejected", value |-> calls[i].raised[1]]

ErrorCompletion ==
    \A i \in 1..Len(calls) :
       (calls[i].raised # <<>> /\ calls' = Remove(calls, i)) =>
          /\ settled' = [kind |-> "rejected", value |-> calls[i].raised[1]]
          /\ env' = Null

FailuresSurfaced == []ErrorRejects /\ [][ErrorCompletion]_vars

-----------------------------------------------------------------------------
(* C14.  As claimed: createOverlayNetwork resolves without a createNetwork *)
(* request when a network of that id exists, and over all the calls made,  *)
(* overlapping ones included, at most one createNetwork request is sent    *)
(* for one id.                                                             *)

\* The step in which the i-th call learns whether its network exists.
ExistenceLearnt(i) ==
    /\ pending[i].method = "createOverlayNetwork"
    /\ pending[i].pc = "asked"
    /\ \/ pending' = Remove(pending, i)
       \/ Len(pending') = Len(pending) /\ pending'[i].pc = "creating"

ExistingNotCreated ==
    \A i \in 1..Len(pending) :
       (ExistenceLearnt(i) /\ NetworksFound(docker, pending[i].args[1]) # {}) =>
          /\ requests' = requests
          /\ pending' = Remove(pending, i)
          /\ done'.method = "createOverlayNetwork"
          /\ done'.outcome = Resolved(Undefined)

RequestsFor(id) == { k \in 1..Len(requests) : requests[k].Name = id }

-----------------------------------------------------------------------------
(* C15.  getNetworkByName resolves when exactly one of the listed networks *)
(* has the name, and with that network; it rejects with 'No networks       *)
(* found' when none has it, the listing being empty or null included, and  *)
(* with 'More than one networks exist with name <name>' when several have  *)
(* it; the network it resolves with has the name asked for.                *)

-----------------------------------------------------------------------------
(* C16.  doesNetworkExist, doesImageExist and doesContainerExist always    *)
(* resolve: with true when the inspection succeeded and with false when it *)
(* failed, whatever the error.  doContainersExist resolves with one        *)
(* boolean per id, the j-th being the answer for the j-th id.              *)

Succeeded(reply) == reply.err = Null

ExistenceChecks ==
    /\ done.method \in { "doesNetworkExist", "doesImageExist", "doesContainerExist" } =>
          /\ done.inspected[1] # Waiting
          /\ done.outcome = Resolved(Bool(Succeeded(done.inspected[1])))
    /\ done.method = "doContainersExist" =>
          /\ done.outcome.kind = "resolved"
          /\ TypeOf(done.outcome.value) = "array"
          /\ Len(done.outcome.value[2]) = Len(done.args)
          /\ \A j \in 1..Len(done.args) :
                /\ done.inspected[j] # Waiting
                /\ done.outcome.value[2][j] = Bool(Succeeded(done.inspected[j]))
                /\ Succeeded(done.inspected[j]) =>
                      Prop(done.inspected[j].data, "Id") = Str(done.args[j])
                /\ docker.up =>
                      done.outcome.value[2][j] = Bool(done.args[j] \in docker.containers)

ExistenceChecksWitness ==
    /\ done.method = "doContainersExist"
    /\ done.args = <<"db", "web">>
    /\ done.outcome = Resolved(Arr(<< Bool(FALSE), Bool(TRUE) >>))
    /\ done.inspected[1].err = NotFound
    /\ pending = <<>>

-----------------------------------------------------------------------------
(* C17.  findExistingVolumes(site_id) resolves with the names of the       *)
(* listed volumes whose name includes site_id, and with nothing else.      *)

NamesIncluding(volumes, site_id) ==
    { Prop(volumes[k], "Name") : k \in { m \in 1..Len(volumes) :
         LET name == Prop(volumes[m], "Name")
         IN TypeOf(name) = "string" /\ Includes(name[2], site_id) } }

ExistingVolumeNames ==
    (done.method = "findExistingVolumes" /\ Succeeded(done.inspected[1])) =>
        LET listed == Prop(done.inspected[1].data, "Volumes")
            volumes == IF listed = Null THEN <<>> ELSE listed[2]
            value == done.outcome.value
        IN /\ done.outcome.kind = "resolved"
           /\ TypeOf(value) = "array"
           /\ { value[2][k] : k \in 1..Len(value[2]) }
                 = NamesIncluding(volumes, done.args[1])

====
